---- MODULE Spec2Model ----
(***************************************************************************)
(* Retrieval layer of whatsapp-mcp over the chats/messages store.          *)
(*                                                                         *)
(* Two implementations of the same operations live in the repository:      *)
(*   DBHandler  (package main,     src/unnamed/part_000)                   *)
(*   WhatsApp   (package whatsapp, src/whatsapp-bridge/whatsapp/           *)
(*               whatsapp_db.go)                                           *)
(* Both are modelled, query by query, over one store.                      *)
(*                                                                         *)
(* Strings are sequences of one-character strings.  Timestamps are the     *)
(* naturals 1, 2, ...: the stored text form sorts as the instants do.      *)
(* A result row keeps the whole stored row (with its id) it was scanned    *)
(* from, so that a returned message can be traced back to the store.       *)
(***************************************************************************)
EXTENDS Integers, Sequences, FiniteSets, TLC

VARIABLES messages, chats, pc, call, loc, queries, result, prev

vars == <<messages, chats, pc, call, loc, queries, result, prev>>

(***************************************************************************)
(* Bounds of the model.                                                    *)
(***************************************************************************)
\* number of messages the ingestion feed stores (at most Len(Feed))
MaxMsgs == 8
\* before / after counts of a context call range over 0..MaxCount
MaxCount == 2
\* page numbers range over 0..MaxPage
MaxPage == 2
\* limits range over 1..MaxLimit
MaxLimit == 2

(***************************************************************************)
(* Strings.                                                                *)
(***************************************************************************)
\* the direct-chat domain marker "@s.whatsapp.net"
DirectMarker == <<"@", "s", ".", "w", "h", "a", "t", "s", "a", "p", "p", ".", "n", "e", "t">>

\* the group marker "@g.us" of IsGroup
GroupMarker == <<"@", "g", ".", "u", "s">>

\* SQL LOWER() / the case folding of LIKE, on the letters the model uses
Lower(c) ==
    CASE c = "A" -> "a"
      [] c = "B" -> "b"
      [] c = "H" -> "h"
      [] c = "I" -> "i"
      [] OTHER -> c

\* SQLite's  s LIKE p : '%' matches any run of characters, '_' any one
\* character, every other character itself without regard to case
RECURSIVE Like(_, _)
Like(s, p) ==
    IF p = <<>> THEN s = <<>>
    ELSE IF Head(p) = "%"
         THEN \E k \in 0..Len(s) : Like(SubSeq(s, k + 1, Len(s)), Tail(p))
    ELSE IF s = <<>> THEN FALSE
    ELSE IF Head(p) = "_" THEN Like(Tail(s), Tail(p))
    ELSE Lower(Head(s)) = Lower(Head(p)) /\ Like(Tail(s), Tail(p))

\* the pattern "%" + query + "%" the code builds for every LIKE
Contains(q) == <<"%">> \o q \o <<"%">>

\* strings.HasSuffix
HasSuffix(s, suffix) ==
    /\ Len(s) >= Len(suffix)
    /\ SubSeq(s, Len(s) - Len(suffix) + 1, Len(s)) = suffix

\* params.SenderPhoneNumber + "@s.whatsapp.net"
PhoneToIdentifier(phone) == phone \o DirectMarker

(***************************************************************************)
(* The store.  It is written by the ingestion side only, which is not part *)
(* of the retrieval layer: Feed is the stream of messages it stores, in    *)
(* arrival order (arrival order is not timestamp order).                   *)
(***************************************************************************)
Phone1 == <<"1">>
Phone2 == <<"2">>
JID1 == PhoneToIdentifier(Phone1)
JID2 == PhoneToIdentifier(Phone2)
GroupJID == <<"9">> \o GroupMarker

Feed ==
    << [chat_jid |-> JID1, sender |-> Phone1, content |-> <<"H", "i">>, timestamp |-> 3],
       [chat_jid |-> JID1, sender |-> JID1, content |-> <<"y", "o">>, timestamp |-> 1],
       [chat_jid |-> JID1, sender |-> JID1, content |-> <<"h", "i", "!">>, timestamp |-> 5],
       [chat_jid |-> JID2, sender |-> Phone2, content |-> <<"h", "i">>, timestamp |-> 2],
       [chat_jid |-> JID1, sender |-> Phone1, content |-> <<"y", "o">>, timestamp |-> 2],
       [chat_jid |-> JID1, sender |-> JID2, content |-> <<"a", "b">>, timestamp |-> 4],
       [chat_jid |-> JID1, sender |-> JID1, content |-> <<"H", "I">>, timestamp |-> 3],
       [chat_jid |-> JID2, sender |-> JID1, content |-> <<"a", "_">>, timestamp |-> 4],
       [chat_jid |-> GroupJID, sender |-> Phone1, content |-> <<"h", "i">>, timestamp |-> 3],
       [chat_jid |-> JID2, sender |-> Phone2, content |-> <<"y", "o">>, timestamp |-> 4] >>

\* the chats table before any message is stored: every chat is known, with a
\* last_message_time that no stored message carries
InitialChats ==
    [j \in {JID1, JID2, GroupJID} |->
        [name |-> IF j = JID1 THEN <<"A", "l">>
                  ELSE IF j = JID2 THEN <<"B", "o">> ELSE <<"a", "l", "l">>,
         last_message_time |-> 0]]

\* message identifiers are 1, 2, ... in arrival order
MessageIDs == 1..(MaxMsgs + 1)

\* the rows of the messages table
MessageRows == {messages[i] : i \in 1..Len(messages)}

\* the rows of the chats table
ChatRows ==
    {[jid |-> j, name |-> chats[j].name, last_message_time |-> chats[j].last_message_time] :
        j \in DOMAIN chats}

(***************************************************************************)
(* SQL building blocks.                                                    *)
(***************************************************************************)
\* FROM messages JOIN chats ON messages.chat_jid = chats.jid
JoinChats(rows) == {m \in rows : m.chat_jid \in DOMAIN chats}

\* ORDER BY timestamp ASC: every order of the rows in which timestamps never
\* decrease; rows of equal timestamp come in an order SQL leaves open
RECURSIVE OrderByTimestampAsc(_)
OrderByTimestampAsc(rows) ==
    IF rows = {} THEN {<<>>}
    ELSE UNION {{<<m>> \o t : t \in OrderByTimestampAsc(rows \ {m})} :
                m \in {x \in rows : \A y \in rows : x.timestamp <= y.timestamp}}

\* ORDER BY timestamp DESC
RECURSIVE OrderByTimestampDesc(_)
OrderByTimestampDesc(rows) ==
    IF rows = {} THEN {<<>>}
    ELSE UNION {{<<m>> \o t : t \in OrderByTimestampDesc(rows \ {m})} :
                m \in {x \in rows : \A y \in rows : x.timestamp >= y.timestamp}}

\* LIMIT n OFFSET o of SQLite: a negative limit is no limit, a negative
\* offset is offset 0
LimitOffset(s, n, o) ==
    LET from == (IF o < 0 THEN 0 ELSE o) + 1
        to == IF n < 0 THEN Len(s)
              ELSE IF from - 1 + n > Len(s) THEN Len(s) ELSE from - 1 + n
    IN SubSeq(s, from, to)

\* LIMIT n
Limit(s, n) == LimitOffset(s, n, 0)

\* the swap loop that reverses a slice in place
RECURSIVE Reverse(_)
Reverse(s) == IF s = <<>> THEN <<>> ELSE Reverse(Tail(s)) \o <<Head(s)>>

\* the set of elements of a sequence
Range(s) == {s[i] : i \in 1..Len(s)}

\* no row: the zero Message / a nil result
NoRow == [id |-> 0, chat_jid |-> <<>>, sender |-> <<>>, content |-> <<>>, timestamp |-> 0]

(***************************************************************************)
(* State of a call.  pc is the position inside the running operation, call *)
(* its parameters, loc its local variables, queries the store queries it   *)
(* has issued so far (with whether the store failed on them), result what  *)
(* the last finished operation returned, prev the call and result before   *)
(* it when the same listing was called twice on the same store.            *)
(***************************************************************************)
NoCall == [op |-> "none"]
NoLoc == [op |-> "none"]
NoResult == [op |-> "none"]

\* one entry of the query log
Issued(q, fail) == [q |-> q, failed |-> fail]

\* no operation is running and none has returned since the store last
\* changed: an operation starts here, so that a result in the state is always
\* the result of a call on the store in the state
Ready == pc = "idle" /\ result = NoResult

(***************************************************************************)
(* Context window: the queries.                                            *)
(***************************************************************************)
\* the target query of both implementations:
\*   FROM messages JOIN chats ... WHERE messages.id = ?
TargetRows(messageID) == {m \in JoinChats(MessageRows) : m.id = messageID}

\* SELECT timestamp FROM messages WHERE id = ? AND chat_jid = ?
TimestampRows(messageID, chatJID) ==
    {m \in MessageRows : m.id = messageID /\ m.chat_jid = chatJID}

\* WHERE chat_jid = ? AND timestamp < ? ORDER BY timestamp DESC LIMIT ?
BeforeQuery(rows, chatJID, timestamp, before) ==
    {Limit(s, before) :
        s \in OrderByTimestampDesc({m \in rows : m.chat_jid = chatJID /\ m.timestamp < timestamp})}

\* WHERE chat_jid = ? AND timestamp > ? ORDER BY timestamp ASC LIMIT ?
AfterQuery(rows, chatJID, timestamp, after) ==
    {Limit(s, after) :
        s \in OrderByTimestampAsc({m \in rows : m.chat_jid = chatJID /\ m.timestamp > timestamp})}

(***************************************************************************)
(* WhatsApp.GetMessageContext                                              *)
(***************************************************************************)
\* the target query's error left unchecked: an empty window and no error
WhatsApp_NotFound_Unchecked ==
    [op |-> "GetMessageContext", impl |-> "WhatsApp", err |-> FALSE,
     Message |-> NoRow, Before |-> <<>>, After |-> <<>>]

\* return MessageContext{}, fmt.Errorf("message with ID %s not found: %v", ...)
WhatsApp_NotFound ==
    [op |-> "GetMessageContext", impl |-> "WhatsApp", err |-> TRUE,
     Message |-> NoRow, Before |-> <<>>, After |-> <<>>]

\* the rows-before loop, entered only  if err == nil : the rows are appended
\* in the order the query yields them
WhatsApp_beforeMessages(fail, rows) == IF fail THEN <<>> ELSE rows

\* the rows-after loop never entered
WhatsApp_afterMessages_Skipped(fail, rows) == <<>>

\* the rows-after loop, entered only  if err == nil
WhatsApp_afterMessages(fail, rows) == IF fail THEN <<>> ELSE rows

\* return MessageContext{Message: targetMessage, Before: ..., After: ...}, nil
WhatsApp_Context(targetMessage, beforeMessages, afterMessages) ==
    [op |-> "GetMessageContext", impl |-> "WhatsApp", err |-> FALSE,
     Message |-> targetMessage, Before |-> beforeMessages, After |-> afterMessages]

\* entry and target query
WhatsApp_GetMessageContext(messageID, before, after) ==
    /\ Ready
    /\ call' = [op |-> "GetMessageContext", impl |-> "WhatsApp",
                messageID |-> messageID, before |-> before, after |-> after]
    /\ \E fail \in BOOLEAN :
         /\ queries' = <<Issued("target", fail)>>
         /\ IF fail \/ TargetRows(messageID) = {}
            THEN /\ result' = WhatsApp_NotFound
                 /\ pc' = "idle"
                 /\ loc' = NoLoc
            ELSE /\ \E m \in TargetRows(messageID) :
                      loc' = [targetMessage |-> m, chatJID |-> m.chat_jid,
                              timestamp |-> m.timestamp, beforeMessages |-> <<>>]
                 /\ pc' = "WhatsApp_before"
                 /\ result' = NoResult
    /\ UNCHANGED <<messages, chats, prev>>

\* the before query and its scan loop
WhatsApp_GetMessageContext_Before ==
    /\ pc = "WhatsApp_before"
    /\ \E fail \in BOOLEAN :
         /\ queries' = Append(queries, Issued("before", fail))
         /\ \E rows \in BeforeQuery(JoinChats(MessageRows), loc.chatJID, loc.timestamp, call.before) :
              loc' = [loc EXCEPT !.beforeMessages = WhatsApp_beforeMessages(fail, rows)]
    /\ pc' = "WhatsApp_after"
    /\ UNCHANGED <<messages, chats, call, result, prev>>

\* the after query, its scan loop and the return
WhatsApp_GetMessageContext_After ==
    /\ pc = "WhatsApp_after"
    /\ \E fail \in BOOLEAN :
         /\ queries' = Append(queries, Issued("after", fail))
         /\ \E rows \in AfterQuery(JoinChats(MessageRows), loc.chatJID, loc.timestamp, call.after) :
              result' = WhatsApp_Context(loc.targetMessage, loc.beforeMessages,
                                         WhatsApp_afterMessages(fail, rows))
    /\ pc' = "idle"
    /\ loc' = NoLoc
    /\ UNCHANGED <<messages, chats, call, prev>>

(***************************************************************************)
(* DBHandler.GetMessageContext and DBHandler.getMessageContext             *)
(***************************************************************************)
\* return nil, fmt.Errorf(...)
DBHandler_ContextError ==
    [op |-> "GetMessageContext", impl |-> "DBHandler", err |-> TRUE,
     Message |-> NoRow, Before |-> <<>>, After |-> <<>>, ContextItems |-> <<>>]

\* the rows-before loop followed by the reversal that puts them in
\* chronological order
DBHandler_beforeMessages(rows) == Reverse(rows)

\* the rows-after loop.  Its body scans beforeRows, not afterRows: beforeRows
\* was read to its end by the loop before, database/sql closed it then, and
\* Scan on closed rows reports an error.  So the first row the after query
\* yields ends the call with "failed to scan message row".
DBHandler_afterLoop(rows) ==
    IF rows = <<>>
    THEN [err |-> FALSE, afterMessages |-> <<>>]
    ELSE [err |-> TRUE, afterMessages |-> <<>>]

\* allMessages := append(beforeMessages, afterMessages...), as msg.ContextItems
\* of the MessageResult GetMessageContext returns
DBHandler_Context(msg, beforeMessages, afterMessages) ==
    [op |-> "GetMessageContext", impl |-> "DBHandler", err |-> FALSE,
     Message |-> msg, Before |-> beforeMessages, After |-> afterMessages,
     ContextItems |-> beforeMessages \o afterMessages]

\* GetMessageContext: entry and target query
DBHandler_GetMessageContext(messageID, before, after) ==
    /\ Ready
    /\ call' = [op |-> "GetMessageContext", impl |-> "DBHandler",
                messageID |-> messageID, before |-> before, after |-> after]
    /\ \E fail \in BOOLEAN :
         /\ queries' = <<Issued("target", fail)>>
         /\ IF fail \/ TargetRows(messageID) = {}
            THEN /\ result' = DBHandler_ContextError
                 /\ pc' = "idle"
                 /\ loc' = NoLoc
            ELSE /\ \E m \in TargetRows(messageID) :
                      loc' = [targetMessage |-> m, chatJID |-> m.chat_jid,
                              timestamp |-> 0, beforeMessages |-> <<>>]
                 /\ pc' = "DBHandler_timestamp"
                 /\ result' = NoResult
    /\ UNCHANGED <<messages, chats, prev>>

\* getMessageContext: the timestamp of the target message
DBHandler_getMessageContext_Timestamp ==
    /\ pc = "DBHandler_timestamp"
    /\ \E fail \in BOOLEAN :
         /\ queries' = Append(queries, Issued("timestamp", fail))
         /\ IF fail \/ TimestampRows(loc.targetMessage.id, loc.chatJID) = {}
            THEN /\ result' = DBHandler_ContextError
                 /\ pc' = "idle"
                 /\ loc' = NoLoc
            ELSE /\ \E m \in TimestampRows(loc.targetMessage.id, loc.chatJID) :
                      loc' = [loc EXCEPT !.timestamp = m.timestamp]
                 /\ pc' = "DBHandler_before"
                 /\ result' = result
    /\ UNCHANGED <<messages, chats, call, prev>>

\* getMessageContext: the before query, its scan loop and the reversal
DBHandler_getMessageContext_Before ==
    /\ pc = "DBHandler_before"
    /\ \E fail \in BOOLEAN :
         /\ queries' = Append(queries, Issued("before", fail))
         /\ IF fail
            THEN /\ result' = DBHandler_ContextError
                 /\ pc' = "idle"
                 /\ loc' = NoLoc
            ELSE /\ \E rows \in BeforeQuery(MessageRows, loc.chatJID, loc.timestamp, call.before) :
                      loc' = [loc EXCEPT !.beforeMessages = DBHandler_beforeMessages(rows)]
                 /\ pc' = "DBHandler_after"
                 /\ result' = result
    /\ UNCHANGED <<messages, chats, call, prev>>

\* getMessageContext: the after query, its scan loop and the return
DBHandler_getMessageContext_After ==
    /\ pc = "DBHandler_after"
    /\ \E fail \in BOOLEAN :
         /\ queries' = Append(queries, Issued("after", fail))
         /\ \E rows \in AfterQuery(MessageRows, loc.chatJID, loc.timestamp, call.after) :
              result' = IF fail \/ DBHandler_afterLoop(rows).err
                        THEN DBHandler_ContextError
                        ELSE DBHandler_Context(loc.targetMessage, loc.beforeMessages,
                                               DBHandler_afterLoop(rows).afterMessages)
    /\ pc' = "idle"
    /\ loc' = NoLoc
    /\ UNCHANGED <<messages, chats, call, prev>>

(***************************************************************************)
(* The context of one listed message, as ListMessages uses it: the whole   *)
(* call at once.  Each is a set of outcomes, one for every way the store   *)
(* can fail and every order the queries can yield; failed tells whether    *)
(* the store failed on one of the call's queries.                          *)
(***************************************************************************)
\* wa.GetMessageContext(msg.ID, contextBefore, contextAfter)
WhatsApp_GetMessageContextResults(messageID, before, after) ==
    {[res |-> WhatsApp_NotFound, failed |-> TRUE]}
    \cup
    IF TargetRows(messageID) = {}
    THEN {[res |-> WhatsApp_NotFound, failed |-> FALSE]}
    ELSE LET m == CHOOSE m \in TargetRows(messageID) : TRUE
         IN {[res |-> WhatsApp_Context(m, WhatsApp_beforeMessages(fb, rb),
                                       WhatsApp_afterMessages(fa, ra)),
              failed |-> fb \/ fa] :
                fb \in BOOLEAN, fa \in BOOLEAN,
                rb \in BeforeQuery(JoinChats(MessageRows), m.chat_jid, m.timestamp, before),
                ra \in AfterQuery(JoinChats(MessageRows), m.chat_jid, m.timestamp, after)}

\* h.getMessageContext(msg.ID, msg.ChatJID, params.ContextBefore, params.ContextAfter)
DBHandler_getMessageContext(messageID, chatJID, before, after) ==
    {[err |-> TRUE, items |-> <<>>, failed |-> TRUE]}
    \cup
    IF TimestampRows(messageID, chatJID) = {}
    THEN {[err |-> TRUE, items |-> <<>>, failed |-> FALSE]}
    ELSE LET m == CHOOSE m \in TimestampRows(messageID, chatJID) : TRUE
         IN {[err |-> DBHandler_afterLoop(ra).err,
              items |-> IF DBHandler_afterLoop(ra).err THEN <<>>
                        ELSE DBHandler_beforeMessages(rb) \o DBHandler_afterLoop(ra).afterMessages,
              failed |-> FALSE] :
                rb \in BeforeQuery(MessageRows, chatJID, m.timestamp, before),
                ra \in AfterQuery(MessageRows, chatJID, m.timestamp, after)}

(***************************************************************************)
(* ListMessages.  The parameters are a record                              *)
(*   [after, before, sender, chat_jid, query, limit, page,                 *)
(*    includeContext, contextBefore, contextAfter].                        *)
(* A time bound is given at the resolution of the stored timestamps.       *)
(***************************************************************************)
\* an omitted time bound:  params.After == nil,  after == ""
NoTime == 0

\* a time bound that time.Parse(time.RFC3339, ...) rejects
BadTime == -1

\* one fragment of the WHERE clause with its argument
Clause(k, v) == [k |-> k, v |-> v]

\* LOWER(s)
LowerString(s) == [i \in 1..Len(s) |-> Lower(s[i])]

\* a WHERE fragment evaluated on a row of messages
ClauseHolds(c, m) ==
    CASE c.k = "timestamp > ?" -> m.timestamp > c.v
      [] c.k = "timestamp < ?" -> m.timestamp < c.v
      [] c.k = "sender = ?" -> m.sender = c.v
      [] c.k = "chat_jid = ?" -> m.chat_jid = c.v
      [] c.k = "content LIKE ?" -> Like(m.content, c.v)
      [] c.k = "LOWER(content) LIKE LOWER(?)" -> Like(LowerString(m.content), LowerString(c.v))

\* strings.Join(whereClause, " AND "), and no WHERE at all when there is no
\* fragment
JoinAnd(clauses, m) == \A i \in 1..Len(clauses) : ClauseHolds(clauses[i], m)

\* the rows the WHERE clause keeps
Where(rows, clauses) == {m \in rows : JoinAnd(clauses, m)}

\* DBHandler.ListMessages: whereClause and args
DBHandler_whereClause(p) ==
    (IF p.after # NoTime THEN <<Clause("timestamp > ?", p.after)>> ELSE <<>>)
    \o (IF p.before # NoTime THEN <<Clause("timestamp < ?", p.before)>> ELSE <<>>)
    \o (IF p.sender # <<>>
        THEN <<Clause("sender = ?", PhoneToIdentifier(p.sender))>> ELSE <<>>)
    \o (IF p.chat_jid # <<>> THEN <<Clause("chat_jid = ?", p.chat_jid)>> ELSE <<>>)
    \o (IF p.query # <<>> THEN <<Clause("content LIKE ?", Contains(p.query))>> ELSE <<>>)

\* WhatsApp.ListMessages: whereClauses and params
WhatsApp_whereClauses(p) ==
    (IF p.after # NoTime THEN <<Clause("timestamp > ?", p.after)>> ELSE <<>>)
    \o (IF p.before # NoTime THEN <<Clause("timestamp < ?", p.before)>> ELSE <<>>)
    \o (IF p.sender # <<>> THEN <<Clause("sender = ?", p.sender)>> ELSE <<>>)
    \o (IF p.chat_jid # <<>> THEN <<Clause("chat_jid = ?", p.chat_jid)>> ELSE <<>>)
    \o (IF p.query # <<>>
        THEN <<Clause("LOWER(content) LIKE LOWER(?)", Contains(p.query))>> ELSE <<>>)

\* ORDER BY timestamp DESC LIMIT ? OFFSET ?  with  limit, page*limit
MessagePage(rows, p) ==
    {LimitOffset(s, p.limit, p.page * p.limit) : s \in OrderByTimestampDesc(rows)}

\* DBHandler.ListMessages: the loop over the rows.  A failed context ends the
\* listing with an error.
RECURSIVE DBHandler_ListMessagesLoop(_, _)
DBHandler_ListMessagesLoop(rows, p) ==
    IF rows = <<>> THEN {[err |-> FALSE, results |-> <<>>, log |-> <<>>]}
    ELSE IF ~p.includeContext
    THEN {[err |-> FALSE,
           results |-> <<[msg |-> Head(rows), ContextItems |-> <<>>]>> \o r.results,
           log |-> <<>>] : r \in DBHandler_ListMessagesLoop(Tail(rows), p)}
    ELSE UNION {
        IF c.err
        THEN {[err |-> TRUE, results |-> <<>>, log |-> <<Issued("context", c.failed)>>]}
        ELSE {[err |-> r.err,
               results |-> IF r.err THEN <<>>
                           ELSE <<[msg |-> Head(rows), ContextItems |-> c.items]>> \o r.results,
               log |-> <<Issued("context", c.failed)>> \o r.log] :
                 r \in DBHandler_ListMessagesLoop(Tail(rows), p)} :
        c \in DBHandler_getMessageContext(Head(rows).id, Head(rows).chat_jid,
                                          p.contextBefore, p.contextAfter)}

\* DBHandler.ListMessages: ([]MessageResult, error)
DBHandler_ListMessages(p) ==
    {[result |-> [op |-> "ListMessages", impl |-> "DBHandler", err |-> TRUE,
                  results |-> <<>>],
      log |-> <<Issued("list", TRUE)>>]}
    \cup
    UNION {{[result |-> [op |-> "ListMessages", impl |-> "DBHandler", err |-> o.err,
                         results |-> o.results],
             log |-> <<Issued("list", FALSE)>> \o o.log] :
                o \in DBHandler_ListMessagesLoop(rows, p)} :
           rows \in MessagePage(Where(JoinChats(MessageRows), DBHandler_whereClause(p)), p)}

\* WhatsApp.ListMessages: the loop that adds the context of each message.  A
\* message whose context fails is skipped.
RECURSIVE WhatsApp_messagesWithContext(_, _)
WhatsApp_messagesWithContext(msgs, p) ==
    IF msgs = <<>> THEN {[out |-> <<>>, log |-> <<>>]}
    ELSE {[out |-> (IF c.res.err THEN <<>>
                    ELSE c.res.Before \o <<c.res.Message>> \o c.res.After) \o r.out,
           log |-> <<Issued("context", c.failed)>> \o r.log] :
             c \in WhatsApp_GetMessageContextResults(Head(msgs).id, p.contextBefore,
                                                     p.contextAfter),
             r \in WhatsApp_messagesWithContext(Tail(msgs), p)}

\* WhatsApp.ListMessages returns a string: the formatted messages ("No
\* messages to display." for none), the "Invalid date format ..." sentence,
\* or "" after a database error.  kind tells which, output lists the
\* messages that were formatted, messages is the local slice of listed rows.
WhatsApp_ListMessages(p) ==
    IF p.after = BadTime \/ p.before = BadTime
    THEN {[result |-> [op |-> "ListMessages", impl |-> "WhatsApp", err |-> TRUE,
                       kind |-> "invalid date", messages |-> <<>>, output |-> <<>>],
           log |-> <<>>]}
    ELSE {[result |-> [op |-> "ListMessages", impl |-> "WhatsApp", err |-> TRUE,
                       kind |-> "database error", messages |-> <<>>, output |-> <<>>],
           log |-> <<Issued("list", TRUE)>>]}
         \cup
         UNION {
            IF p.includeContext /\ Len(msgs) > 0
            THEN {[result |-> [op |-> "ListMessages", impl |-> "WhatsApp", err |-> FALSE,
                               kind |-> "messages", messages |-> msgs, output |-> o.out],
                   log |-> <<Issued("list", FALSE)>> \o o.log] :
                     o \in WhatsApp_messagesWithContext(msgs, p)}
            ELSE {[result |-> [op |-> "ListMessages", impl |-> "WhatsApp", err |-> FALSE,
                               kind |-> "messages", messages |-> msgs, output |-> msgs],
                   log |-> <<Issued("list", FALSE)>>]} :
            msgs \in MessagePage(Where(JoinChats(MessageRows), WhatsApp_whereClauses(p)), p)}

(***************************************************************************)
(* ListChats and GetChat.  A chat of a result is a row of chats with the   *)
(* field LastMessage: the row of the last message, or NoRow when the field *)
(* is absent.                                                              *)
(***************************************************************************)
\* byte value of the characters chat names and identifiers are made of:
\* ORDER BY compares bytes
Code(c) ==
    CASE c = "." -> 46
      [] c = "1" -> 49
      [] c = "2" -> 50
      [] c = "9" -> 57
      [] c = "@" -> 64
      [] c = "A" -> 65
      [] c = "B" -> 66
      [] c = "a" -> 97
      [] c = "e" -> 101
      [] c = "g" -> 103
      [] c = "h" -> 104
      [] c = "l" -> 108
      [] c = "n" -> 110
      [] c = "o" -> 111
      [] c = "p" -> 112
      [] c = "s" -> 115
      [] c = "t" -> 116
      [] c = "u" -> 117
      [] c = "w" -> 119
      [] OTHER -> 0

\* a <= b as byte strings
RECURSIVE StringLeq(_, _)
StringLeq(a, b) ==
    IF a = <<>> THEN TRUE
    ELSE IF b = <<>> THEN FALSE
    ELSE IF Code(Head(a)) # Code(Head(b)) THEN Code(Head(a)) < Code(Head(b))
    ELSE StringLeq(Tail(a), Tail(b))

\* ORDER BY last_message_time DESC
RECURSIVE OrderByLastMessageTimeDesc(_)
OrderByLastMessageTimeDesc(rows) ==
    IF rows = {} THEN {<<>>}
    ELSE UNION {{<<c>> \o t : t \in OrderByLastMessageTimeDesc(rows \ {c})} :
                c \in {x \in rows : \A y \in rows : x.last_message_time >= y.last_message_time}}

\* ORDER BY name ASC
RECURSIVE OrderByNameAsc(_)
OrderByNameAsc(rows) ==
    IF rows = {} THEN {<<>>}
    ELSE UNION {{<<c>> \o t : t \in OrderByNameAsc(rows \ {c})} :
                c \in {x \in rows : \A y \in rows : StringLeq(x.name, y.name)}}

\* orderBy: "name" sorts by name, anything else by last_message_time DESC
OrderChats(rows, sortBy) ==
    IF sortBy = "name" THEN OrderByNameAsc(rows) ELSE OrderByLastMessageTimeDesc(rows)

\* ORDER BY ... LIMIT ? OFFSET ?  with  limit, page*limit
ChatPage(rows, p) ==
    {LimitOffset(s, p.limit, p.page * p.limit) : s \in OrderChats(rows, p.sortBy)}

\* a chat without the last-message field
Chat(c) ==
    [jid |-> c.jid, name |-> c.name, last_message_time |-> c.last_message_time,
     LastMessage |-> NoRow]

\* a chat with its last message
WithLastMessage(c, m) == [c EXCEPT !.LastMessage = m]

\* no chat: a nil *Chat / *ChatResult
NoChat == [jid |-> <<>>, name |-> <<>>, last_message_time |-> 0, LastMessage |-> NoRow]

\* DBHandler.ListChats: (jid LIKE ? OR name LIKE ?), only with a query
DBHandler_chatWhere(rows, query) ==
    IF query = <<>> THEN rows
    ELSE {c \in rows : Like(c.jid, Contains(query)) \/ Like(c.name, Contains(query))}

\* WhatsApp.ListChats: (LOWER(chats.name) LIKE LOWER(?) OR chats.jid LIKE ?)
WhatsApp_chatWhere(rows, query) ==
    IF query = <<>> THEN rows
    ELSE {c \in rows : \/ Like(LowerString(c.name), LowerString(Contains(query)))
                       \/ Like(c.jid, Contains(query))}

\* DBHandler.getLastMessage: WHERE chat_jid = ? ORDER BY timestamp DESC
\* LIMIT 1; sql.ErrNoRows is (nil, nil)
DBHandler_getLastMessage(chatJID) ==
    {[err |-> TRUE, msg |-> NoRow]}
    \cup
    {[err |-> FALSE, msg |-> IF s = <<>> THEN NoRow ELSE s[1]] :
        s \in OrderByTimestampDesc({m \in MessageRows : m.chat_jid = chatJID})}

\* DBHandler: the last message is attached unless its lookup failed (a
\* warning is printed) or found nothing
DBHandler_enrich(c, lm) == IF lm.err THEN c ELSE WithLastMessage(c, lm.msg)

\* DBHandler.ListChats: the loop over the rows
RECURSIVE DBHandler_ListChatsLoop(_, _)
DBHandler_ListChatsLoop(rows, p) ==
    IF rows = <<>> THEN {[chats |-> <<>>, log |-> <<>>]}
    ELSE IF ~p.includeLastMessage
    THEN {[chats |-> <<Chat(Head(rows))>> \o r.chats, log |-> <<>>] :
            r \in DBHandler_ListChatsLoop(Tail(rows), p)}
    ELSE {[chats |-> <<DBHandler_enrich(Chat(Head(rows)), lm)>> \o r.chats,
           log |-> <<Issued("last message", lm.err)>> \o r.log] :
            lm \in DBHandler_getLastMessage(Head(rows).jid),
            r \in DBHandler_ListChatsLoop(Tail(rows), p)}

\* DBHandler.ListChats: ([]ChatResult, error)
DBHandler_ListChats(p) ==
    {[result |-> [op |-> "ListChats", impl |-> "DBHandler", err |-> TRUE, chats |-> <<>>],
      log |-> <<Issued("list", TRUE)>>]}
    \cup
    UNION {{[result |-> [op |-> "ListChats", impl |-> "DBHandler", err |-> FALSE,
                         chats |-> o.chats],
             log |-> <<Issued("list", FALSE)>> \o o.log] :
                o \in DBHandler_ListChatsLoop(rows, p)} :
           rows \in ChatPage(DBHandler_chatWhere(ChatRows, p.query), p)}

\* FROM chats LEFT JOIN messages ON chats.jid = messages.chat_jid
\*                              AND chats.last_message_time = messages.timestamp
\* one row per matching message, and one row without message for a chat that
\* has none
LeftJoinMessages(rows) ==
    UNION {LET ms == {m \in MessageRows :
                        m.chat_jid = c.jid /\ m.timestamp = c.last_message_time}
           IN IF ms = {} THEN {Chat(c)} ELSE {WithLastMessage(Chat(c), m) : m \in ms} :
           c \in rows}

\* WhatsApp.ListChats: ([]Chat, error).  The SELECT list names
\* messages.content, messages.sender and messages.is_from_me; without the
\* LEFT JOIN of includeLastMessage the statement does not compile and
\* db.Query returns its error.
WhatsApp_ListChats(p) ==
    IF ~p.includeLastMessage
    THEN {[result |-> [op |-> "ListChats", impl |-> "WhatsApp", err |-> TRUE,
                       chats |-> <<>>],
           log |-> <<Issued("list", fail)>>] : fail \in BOOLEAN}
    ELSE {[result |-> [op |-> "ListChats", impl |-> "WhatsApp", err |-> TRUE,
                       chats |-> <<>>],
           log |-> <<Issued("list", TRUE)>>]}
         \cup
         {[result |-> [op |-> "ListChats", impl |-> "WhatsApp", err |-> FALSE,
                       chats |-> rows],
           log |-> <<Issued("list", FALSE)>>] :
            rows \in ChatPage(WhatsApp_chatWhere(LeftJoinMessages(ChatRows), p.query), p)}

\* DBHandler.GetChat: (*ChatResult, error)
DBHandler_GetChat(chatJID, includeLastMessage) ==
    {[result |-> [op |-> "GetChat", impl |-> "DBHandler", err |-> TRUE, chat |-> NoChat],
      log |-> <<Issued("chat", TRUE)>>]}
    \cup
    IF {c \in ChatRows : c.jid = chatJID} = {}
    THEN {[result |-> [op |-> "GetChat", impl |-> "DBHandler", err |-> TRUE,
                       chat |-> NoChat],
           log |-> <<Issued("chat", FALSE)>>]}
    ELSE LET c == Chat(CHOOSE c \in ChatRows : c.jid = chatJID)
         IN IF ~includeLastMessage
            THEN {[result |-> [op |-> "GetChat", impl |-> "DBHandler", err |-> FALSE,
                               chat |-> c],
                   log |-> <<Issued("chat", FALSE)>>]}
            ELSE {[result |-> [op |-> "GetChat", impl |-> "DBHandler", err |-> FALSE,
                               chat |-> DBHandler_enrich(c, lm)],
                   log |-> <<Issued("chat", FALSE), Issued("last message", lm.err)>>] :
                    lm \in DBHandler_getLastMessage(c.jid)}

\* WhatsApp.GetChat: (*Chat, error); one query, with the LEFT JOIN when
\* includeLastMessage is set; QueryRow takes the first row; sql.ErrNoRows is
\* (nil, nil)
WhatsApp_GetChat(chatJID, includeLastMessage) ==
    {[result |-> [op |-> "GetChat", impl |-> "WhatsApp", err |-> TRUE, chat |-> NoChat],
      log |-> <<Issued("chat", TRUE)>>]}
    \cup
    IF {c \in ChatRows : c.jid = chatJID} = {}
    THEN {[result |-> [op |-> "GetChat", impl |-> "WhatsApp", err |-> FALSE,
                       chat |-> NoChat],
           log |-> <<Issued("chat", FALSE)>>]}
    ELSE {[result |-> [op |-> "GetChat", impl |-> "WhatsApp", err |-> FALSE, chat |-> c],
           log |-> <<Issued("chat", FALSE)>>] :
            c \in IF includeLastMessage
                  THEN LeftJoinMessages({c \in ChatRows : c.jid = chatJID})
                  ELSE {Chat(c) : c \in {c \in ChatRows : c.jid = chatJID}}}

(***************************************************************************)
(* SearchContacts.  A contact of a result is the identifier and the name   *)
(* of a chat with the phone number taken from the identifier.              *)
(***************************************************************************)
\* strings.TrimSpace: the white space at both ends is removed
RECURSIVE TrimSpace(_)
TrimSpace(s) ==
    IF s = <<>> THEN s
    ELSE IF Head(s) = " " THEN TrimSpace(Tail(s))
    ELSE IF s[Len(s)] = " " THEN TrimSpace(SubSeq(s, 1, Len(s) - 1))
    ELSE s

\* strings.Contains
StringsContains(s, sub) ==
    \E i \in 1..(Len(s) + 1) :
        i + Len(sub) - 1 <= Len(s) /\ SubSeq(s, i, i + Len(sub) - 1) = sub

\* the identifier taken whole for its phone number
SplitAt0_Whole(s) == s

\* strings.Split(s, "@")[0]: the characters before the first "@", all of
\* them when there is none
RECURSIVE SplitAt0(_)
SplitAt0(s) ==
    IF s = <<>> \/ Head(s) = "@" THEN <<>> ELSE <<Head(s)>> \o SplitAt0(Tail(s))

\* DBHandler.SearchContacts: PhoneNumber is set for an identifier that
\* contains "@s.whatsapp.net" and stays empty for any other
DBHandler_PhoneNumber(jid) ==
    IF StringsContains(jid, DirectMarker) THEN SplitAt0(jid) ELSE <<>>

\* WhatsApp.SearchContacts: PhoneNumber is parts[0] of every identifier
WhatsApp_PhoneNumber(jid) == SplitAt0(jid)

\* LIMIT 50 of WhatsApp.SearchContacts
ContactLimit == 50

\* SELECT DISTINCT jid, name FROM chats
ContactRows == {[jid |-> c.jid, name |-> c.name] : c \in ChatRows}

\* ORDER BY name, jid
RECURSIVE OrderByNameJid(_)
OrderByNameJid(rows) ==
    IF rows = {} THEN {<<>>}
    ELSE UNION {{<<c>> \o t : t \in OrderByNameJid(rows \ {c})} :
                c \in {x \in rows : \A y \in rows :
                         \/ x.name # y.name /\ StringLeq(x.name, y.name)
                         \/ x.name = y.name /\ StringLeq(x.jid, y.jid)}}

\* DBHandler.SearchContacts: WHERE jid LIKE ? OR name LIKE ?
DBHandler_contactWhere(rows, query) ==
    {c \in rows : Like(c.jid, Contains(query)) \/ Like(c.name, Contains(query))}

\* WhatsApp.SearchContacts:
\*   WHERE (LOWER(name) LIKE LOWER(?) OR LOWER(jid) LIKE LOWER(?))
\*         AND jid NOT LIKE '%@g.us'
WhatsApp_contactWhere(rows, searchPattern) ==
    {c \in rows :
        /\ \/ Like(LowerString(c.name), LowerString(searchPattern))
           \/ Like(LowerString(c.jid), LowerString(searchPattern))
        /\ ~Like(c.jid, <<"%">> \o GroupMarker)}

\* DBHandler.SearchContacts: ([]SearchContactsResult, error).  An empty
\* trimmed query is refused before the store is asked.
DBHandler_SearchContacts(q) ==
    LET query == TrimSpace(q)
    IN IF query = <<>>
       THEN {[result |-> [op |-> "SearchContacts", impl |-> "DBHandler", err |-> TRUE,
                          contacts |-> <<>>],
              log |-> <<>>]}
       ELSE {[result |-> [op |-> "SearchContacts", impl |-> "DBHandler", err |-> TRUE,
                          contacts |-> <<>>],
              log |-> <<Issued("contacts", TRUE)>>]}
            \cup
            {[result |-> [op |-> "SearchContacts", impl |-> "DBHandler", err |-> FALSE,
                          contacts |-> [i \in 1..Len(rows) |->
                                          [JID |-> rows[i].jid, Name |-> rows[i].name,
                                           PhoneNumber |-> DBHandler_PhoneNumber(rows[i].jid)]]],
              log |-> <<Issued("contacts", FALSE)>>] :
                rows \in OrderByNameAsc(DBHandler_contactWhere(ContactRows, query))}

\* WhatsApp.SearchContacts: ([]Contact, error).  The query goes into the
\* pattern as it is given.
WhatsApp_SearchContacts(query) ==
    {[result |-> [op |-> "SearchContacts", impl |-> "WhatsApp", err |-> TRUE,
                  contacts |-> <<>>],
      log |-> <<Issued("contacts", TRUE)>>]}
    \cup
    {[result |-> [op |-> "SearchContacts", impl |-> "WhatsApp", err |-> FALSE,
                  contacts |-> [i \in 1..Len(rows) |->
                                  [JID |-> rows[i].jid, Name |-> rows[i].name,
                                   PhoneNumber |-> WhatsApp_PhoneNumber(rows[i].jid)]]],
      log |-> <<Issued("contacts", FALSE)>>] :
        rows \in {Limit(s, ContactLimit) :
                    s \in OrderByNameJid(WhatsApp_contactWhere(ContactRows, Contains(query)))}}

(***************************************************************************)
(* The listings as operations.                                             *)
(***************************************************************************)
\* the outcomes of the listing call c
ListOutcomes(c) ==
    IF c.op = "ListMessages"
    THEN IF c.impl = "DBHandler" THEN DBHandler_ListMessages(c.params)
         ELSE WhatsApp_ListMessages(c.params)
    ELSE IF c.impl = "DBHandler" THEN DBHandler_ListChats(c.params)
    ELSE WhatsApp_ListChats(c.params)

\* a listing is called
List(c) ==
    /\ Ready
    /\ call' = c
    /\ \E o \in ListOutcomes(c) : result' = o.result /\ queries' = o.log
    /\ prev' = NoResult
    /\ UNCHANGED <<messages, chats, pc, loc>>

\* a listing without context that just returned rows is called once more on
\* the unchanged store, with the same parameters and the same or the next
\* page
ListAgain ==
    /\ pc = "idle"
    /\ result.op \in {"ListMessages", "ListChats"}
    /\ ~result.err
    /\ call.op = "ListMessages" => ~call.params.includeContext
    /\ prev = NoResult
    /\ \E d \in {0, 1} :
         LET c == [call EXCEPT !.params.page = @ + d]
         IN /\ call' = c
            /\ \E o \in ListOutcomes(c) : result' = o.result /\ queries' = o.log
    /\ prev' = [op |-> call.op, call |-> call, result |-> result, queries |-> queries]
    /\ UNCHANGED <<messages, chats, pc, loc>>

\* the filters of the ListMessages calls
MessageFilters(afters, befores) ==
    [after : afters, before : befores, sender : {<<>>, Phone1},
     chat_jid : {<<>>, JID1}, query : {<<>>, <<"h", "i">>}]

\* the parameters of the ListMessages calls without context
PlainListParams(afters, befores) ==
    {[after |-> f.after, before |-> f.before, sender |-> f.sender, chat_jid |-> f.chat_jid,
      query |-> f.query, limit |-> l, page |-> g,
      includeContext |-> FALSE, contextBefore |-> 0, contextAfter |-> 0] :
        f \in MessageFilters(afters, befores), l \in 1..MaxLimit, g \in 0..MaxPage}

\* the parameters of the ListMessages calls with context
ContextListParams ==
    {[after |-> NoTime, before |-> NoTime, sender |-> <<>>, chat_jid |-> c,
      query |-> <<>>, limit |-> l, page |-> g,
      includeContext |-> TRUE, contextBefore |-> n[1], contextAfter |-> n[2]] :
        c \in {<<>>, JID1}, l \in 1..MaxLimit, g \in {0, MaxPage - 1},
        n \in {n \in (0..MaxCount) \X (0..MaxCount) : n[1] + n[2] <= MaxCount}}

\* the parameters of the ListChats calls
ListChatsParams ==
    [query : {<<>>, <<"1">>, <<"b">>}, limit : 1..MaxLimit, page : 0..MaxPage,
     includeLastMessage : BOOLEAN, sortBy : {"name", "last_active"}]

\* the identifiers GetChat is called with: the chats and one that is no chat
ChatJIDs == {JID1, JID2, GroupJID, <<"7">>}

\* GetChat is called
GetChat(impl, chatJID, includeLastMessage) ==
    /\ Ready
    /\ call' = [op |-> "GetChat", impl |-> impl, chatJID |-> chatJID,
                includeLastMessage |-> includeLastMessage]
    /\ \E o \in IF impl = "DBHandler" THEN DBHandler_GetChat(chatJID, includeLastMessage)
                 ELSE WhatsApp_GetChat(chatJID, includeLastMessage) :
         result' = o.result /\ queries' = o.log
    /\ prev' = NoResult
    /\ UNCHANGED <<messages, chats, pc, loc>>

\* the queries SearchContacts is called with
SearchQueries ==
    {<<>>, <<" ">>, <<" ", "1">>, <<"1">>, <<"9">>, <<"b">>, <<"s">>, <<"_">>}

\* SearchContacts is called
SearchContacts(impl, query) ==
    /\ Ready
    /\ call' = [op |-> "SearchContacts", impl |-> impl, query |-> query]
    /\ \E o \in IF impl = "DBHandler" THEN DBHandler_SearchContacts(query)
                 ELSE WhatsApp_SearchContacts(query) :
         result' = o.result /\ queries' = o.log
    /\ prev' = NoResult
    /\ UNCHANGED <<messages, chats, pc, loc>>

(***************************************************************************)
(* Ingestion: the next message of the feed is stored, and its chat's       *)
(* last_message_time becomes its timestamp.  No retrieval call is running. *)
(***************************************************************************)
Insert ==
    /\ pc = "idle"
    /\ Len(messages) < MaxMsgs
    /\ Len(messages) < Len(Feed)
    /\ LET i == Len(messages) + 1
           m == [id |-> i, chat_jid |-> Feed[i].chat_jid, sender |-> Feed[i].sender,
                 content |-> Feed[i].content, timestamp |-> Feed[i].timestamp]
       IN /\ messages' = Append(messages, m)
          /\ chats' = [chats EXCEPT ![m.chat_jid].last_message_time = m.timestamp]
    /\ call' = NoCall
    /\ result' = NoResult
    /\ queries' = <<>>
    /\ prev' = NoResult
    /\ UNCHANGED <<pc, loc>>

Init ==
    /\ messages = <<>>
    /\ chats = InitialChats
    /\ pc = "idle"
    /\ call = NoCall
    /\ loc = NoLoc
    /\ queries = <<>>
    /\ result = NoResult
    /\ prev = NoResult

Next ==
    \/ Insert
    \/ \E messageID \in MessageIDs, before \in 0..MaxCount, after \in 0..MaxCount :
         \/ WhatsApp_GetMessageContext(messageID, before, after)
         \/ DBHandler_GetMessageContext(messageID, before, after)
    \/ WhatsApp_GetMessageContext_Before
    \/ WhatsApp_GetMessageContext_After
    \/ DBHandler_getMessageContext_Timestamp
    \/ DBHandler_getMessageContext_Before
    \/ DBHandler_getMessageContext_After
    \/ \E p \in PlainListParams({NoTime, 2}, {NoTime, 4}) \cup ContextListParams :
         List([op |-> "ListMessages", impl |-> "DBHandler", params |-> p])
    \/ \E p \in PlainListParams({NoTime, BadTime, 2}, {NoTime, BadTime, 4})
                \cup ContextListParams :
         List([op |-> "ListMessages", impl |-> "WhatsApp", params |-> p])
    \/ \E p \in ListChatsParams, impl \in {"DBHandler", "WhatsApp"} :
         List([op |-> "ListChats", impl |-> impl, params |-> p])
    \/ ListAgain
    \/ \E impl \in {"DBHandler", "WhatsApp"}, chatJID \in ChatJIDs,
          includeLastMessage \in BOOLEAN :
         GetChat(impl, chatJID, includeLastMessage)
    \/ \E impl \in {"DBHandler", "WhatsApp"}, query \in SearchQueries :
         SearchContacts(impl, query)

Spec == Init /\ [][Next]_vars

(***************************************************************************)
(* Identity normalization on its own: a phone string is made an identifier *)
(* as ListMessages and GetDirectChatByContact make it, and the phone       *)
(* number is taken from the identifier as SearchContacts takes it.         *)
(***************************************************************************)
\* the longest phone string that is enumerated
MaxPhoneLen == 3

\* the characters of the enumerated phone strings
PhoneChars == {"1", "5", "@", "s"}

\* the strings of at most n of the characters
RECURSIVE StringsUpTo(_, _)
StringsUpTo(chars, n) ==
    IF n = 0 THEN {<<>>}
    ELSE LET S == StringsUpTo(chars, n - 1)
         IN S \cup {Append(s, c) : s \in S, c \in chars}

\* the phone strings: the short ones, and two that hold the domain marker
PhoneStrings ==
    StringsUpTo(PhoneChars, MaxPhoneLen) \cup {DirectMarker, <<"1">> \o DirectMarker}

\* jid := phoneNumber + "@s.whatsapp.net"
Normalize ==
    /\ pc = "idle"
    /\ call.op = "PhoneToIdentifier"
    /\ loc = NoLoc
    /\ result = NoResult
    /\ loc' = [jid |-> PhoneToIdentifier(call.phone)]
    /\ pc' = "normalized"
    /\ UNCHANGED <<messages, chats, call, queries, result, prev>>

\* contact.PhoneNumber of a contact with the identifier
ExtractPhone(impl) ==
    /\ pc = "normalized"
    /\ result' = [op |-> "IdentifierToPhone", impl |-> impl,
                  PhoneNumber |-> IF impl = "DBHandler" THEN DBHandler_PhoneNumber(loc.jid)
                                  ELSE WhatsApp_PhoneNumber(loc.jid)]
    /\ pc' = "idle"
    /\ UNCHANGED <<messages, chats, call, loc, queries, prev>>

InitIdentity ==
    /\ messages = <<>>
    /\ chats = InitialChats
    /\ pc = "idle"
    /\ call \in {[op |-> "PhoneToIdentifier", phone |-> p] : p \in PhoneStrings}
    /\ loc = NoLoc
    /\ queries = <<>>
    /\ result = NoResult
    /\ prev = NoResult

NextIdentity ==
    \/ Normalize
    \/ \E impl \in {"DBHandler", "WhatsApp"} : ExtractPhone(impl)

SpecIdentity == InitIdentity /\ [][NextIdentity]_vars

(***************************************************************************)
(* WhatsApp.GetSenderName, on chats tables in which a chat may have an     *)
(* empty name.                                                             *)
(***************************************************************************)
\* the second lookup made whatever the first one gave
WhatsApp_needsSecondLookup_Always(err, name) == TRUE

\* if err != nil || name == ""
WhatsApp_needsSecondLookup(err, name) == err \/ name = <<>>

\* phonePart: the characters before the "@" of an identifier that has one
WhatsApp_phonePart(senderJID) ==
    IF StringsContains(senderJID, <<"@">>) THEN SplitAt0(senderJID) ELSE senderJID

\* QueryRow(...).Scan(&name): the row LIMIT 1 leaves of the rows, any of
\* them; an error, and name as it was, when the store fails or there is no
\* row
ScanName(fail, rows, name) ==
    IF fail \/ rows = {} THEN {[err |-> TRUE, name |-> name]}
    ELSE {[err |-> FALSE, name |-> c.name] : c \in rows}

\* return name  if err == nil && name != "",  return senderJID  otherwise
WhatsApp_senderName(senderJID, scan, log) ==
    [result |-> [op |-> "GetSenderName", impl |-> "WhatsApp",
                 name |-> IF ~scan.err /\ scan.name # <<>> THEN scan.name ELSE senderJID],
     log |-> log]

\* the second lookup:  WHERE jid LIKE ?  with  "%" + phonePart + "%"
WhatsApp_secondLookup(senderJID, fail1, first) ==
    UNION {{WhatsApp_senderName(senderJID, second,
                                <<Issued("name", fail1), Issued("name like", fail2)>>) :
              second \in ScanName(fail2,
                                  {c \in ChatRows :
                                     Like(c.jid, Contains(WhatsApp_phonePart(senderJID)))},
                                  first.name)} :
           fail2 \in BOOLEAN}

\* WhatsApp.GetSenderName: string.  The first lookup is  WHERE jid = ?
WhatsApp_GetSenderName(senderJID) ==
    UNION {UNION {IF WhatsApp_needsSecondLookup(first.err, first.name)
                  THEN WhatsApp_secondLookup(senderJID, fail1, first)
                  ELSE {WhatsApp_senderName(senderJID, first, <<Issued("name", fail1)>>)} :
                  first \in ScanName(fail1, {c \in ChatRows : c.jid = senderJID}, <<>>)} :
           fail1 \in BOOLEAN}

\* the identifiers GetSenderName is called with
SenderJIDs ==
    {JID1, <<"2">> \o DirectMarker, <<"2", "1">> \o DirectMarker,
     <<"7">> \o DirectMarker, <<"1">>, GroupJID}

\* GetSenderName is called
GetSenderName(senderJID) ==
    /\ Ready
    /\ call' = [op |-> "GetSenderName", impl |-> "WhatsApp", senderJID |-> senderJID]
    /\ \E o \in WhatsApp_GetSenderName(senderJID) :
         result' = o.result /\ queries' = o.log
    /\ prev' = NoResult
    /\ UNCHANGED <<messages, chats, pc, loc>>

\* the names a chat of the enumerated tables may have, the empty name too
ChatNames(jid) ==
    IF jid = JID1 THEN {<<"A", "l">>, <<>>}
    ELSE IF jid = GroupJID THEN {<<"a", "l", "l">>}
    ELSE {<<"B", "o">>, <<>>}

\* the chats tables: some of three chats, each with one of its names
ChatTables ==
    UNION {{[j \in js |-> [name |-> n[j], last_message_time |-> 0]] :
              n \in {n \in [js -> {<<"A", "l">>, <<"B", "o">>, <<"a", "l", "l">>, <<>>}] :
                       \A j \in js : n[j] \in ChatNames(j)}} :
           js \in SUBSET {JID1, <<"2", "1">> \o DirectMarker, GroupJID}}

InitNames ==
    /\ messages = <<>>
    /\ chats \in ChatTables
    /\ pc = "idle"
    /\ call = NoCall
    /\ loc = NoLoc
    /\ queries = <<>>
    /\ result = NoResult
    /\ prev = NoResult

NextNames == \E senderJID \in SenderJIDs : GetSenderName(senderJID)

SpecNames == InitNames /\ [][NextNames]_vars

(***************************************************************************)
(* A context call with a concurrent writer.  The call's queries are        *)
(* separate statements on the shared handle, so the ingestion side may     *)
(* store messages between two of them.                                     *)
(***************************************************************************)
\* the writer stores the next message of the feed while a context call is
\* between two of its queries; the write is entered in the log of the call
Write ==
    /\ pc # "idle"
    /\ Len(messages) < MaxMsgs
    /\ Len(messages) < Len(Feed)
    /\ LET i == Len(messages) + 1
           m == [id |-> i, chat_jid |-> Feed[i].chat_jid, sender |-> Feed[i].sender,
                 content |-> Feed[i].content, timestamp |-> Feed[i].timestamp]
       IN /\ messages' = Append(messages, m)
          /\ chats' = [chats EXCEPT ![m.chat_jid].last_message_time = m.timestamp]
    /\ queries' = Append(queries, Issued("write", FALSE))
    /\ UNCHANGED <<pc, call, loc, result, prev>>

NextConcurrent ==
    \/ Insert
    \/ \E messageID \in MessageIDs, before \in 0..MaxCount, after \in 0..MaxCount :
         \/ WhatsApp_GetMessageContext(messageID, before, after)
         \/ DBHandler_GetMessageContext(messageID, before, after)
    \/ WhatsApp_GetMessageContext_Before
    \/ WhatsApp_GetMessageContext_After
    \/ DBHandler_getMessageContext_Timestamp
    \/ DBHandler_getMessageContext_Before
    \/ DBHandler_getMessageContext_After
    \/ Write

SpecConcurrent == Init /\ [][NextConcurrent]_vars

(***************************************************************************)
(* Context window: what the claims speak of.                               *)
(***************************************************************************)
\* a context call has returned
ContextDone == pc = "idle" /\ result.op = "GetMessageContext"

\* the call's anchor identifier names a stored message
AnchorExists == \E m \in MessageRows : m.id = call.messageID

\* the stored anchor message
Anchor == CHOOSE m \in MessageRows : m.id = call.messageID

\* the messages of the anchor's chat strictly before / after the anchor
Predecessors ==
    {m \in MessageRows : m.chat_jid = Anchor.chat_jid /\ m.timestamp < Anchor.timestamp}

Successors ==
    {m \in MessageRows : m.chat_jid = Anchor.chat_jid /\ m.timestamp > Anchor.timestamp}

Min(a, b) == IF a < b THEN a ELSE b

\* timestamps never decrease along s
Ascending(s) == \A i, j \in 1..Len(s) : i < j => s[i].timestamp <= s[j].timestamp

\* s lists n distinct rows of the set from
Picks(s, n, from) == Len(s) = n /\ Cardinality(Range(s)) = n /\ Range(s) \subseteq from

\* some query of the running or finished call failed in the store
SomeQueryFailed == \E i \in 1..Len(queries) : queries[i].failed

\* the before or the after fetch failed in the store
FetchFailed ==
    \E i \in 1..Len(queries) : queries[i].failed /\ queries[i].q \in {"before", "after"}

\* a fetch (anything after the target query) was issued
FetchIssued == \E i \in 1..Len(queries) : queries[i].q # "target"

\* the before-sequence is the min(b, #predecessors) nearest predecessors,
\* oldest first
BeforeIsNearestAscending ==
    /\ Picks(result.Before, Min(call.before, Cardinality(Predecessors)), Predecessors)
    /\ \A m \in Range(result.Before), p \in Predecessors \ Range(result.Before) :
          p.timestamp <= m.timestamp
    /\ Ascending(result.Before)

\* the after-sequence is the min(a, #successors) nearest successors, oldest
\* first
AfterIsNearestAscending ==
    /\ Picks(result.After, Min(call.after, Cardinality(Successors)), Successors)
    /\ \A m \in Range(result.After), p \in Successors \ Range(result.After) :
          m.timestamp <= p.timestamp
    /\ Ascending(result.After)

\* C1: every context call that meets no store failure and returns a window
\* returns as its before-sequence exactly the min(b, number of predecessors)
\* messages of the anchor's chat with the largest timestamps strictly less
\* than the anchor's, in ascending timestamp order (oldest first).
C1_BeforeNearestAscending ==
    (ContextDone /\ ~result.err /\ ~SomeQueryFailed) => BeforeIsNearestAscending

\* C1 for DBHandler alone, which reverses the rows it fetched
C1_DBHandlerBeforeAscending ==
    (ContextDone /\ ~result.err /\ ~SomeQueryFailed /\ result.impl = "DBHandler") =>
        BeforeIsNearestAscending

\* C1 without the order: also WhatsApp returns the nearest predecessors
C1_BeforeNearest ==
    (ContextDone /\ ~result.err /\ ~SomeQueryFailed) =>
        /\ Picks(result.Before, Min(call.before, Cardinality(Predecessors)), Predecessors)
        /\ \A m \in Range(result.Before), p \in Predecessors \ Range(result.Before) :
              p.timestamp <= m.timestamp

\* C2: a context call on an existing anchor, with no store failure, succeeds
\* and returns as its after-sequence exactly the min(a, number of successors)
\* messages of the anchor's chat with the smallest timestamps strictly greater
\* than the anchor's, in ascending timestamp order; for a chat holding
\* T1<T2<T3<T4<T5, anchor T3, before = 2, after = 2 the after-sequence is
\* [T4, T5].
C2_AfterNearestAscending ==
    (ContextDone /\ AnchorExists /\ ~SomeQueryFailed) =>
        (~result.err /\ AfterIsNearestAscending)

\* C2 for WhatsApp alone
C2_WhatsAppAfter ==
    (ContextDone /\ AnchorExists /\ ~SomeQueryFailed /\ result.impl = "WhatsApp") =>
        (~result.err /\ AfterIsNearestAscending)

\* C2 for DBHandler: it succeeds exactly when the after query yields no row
C2_DBHandlerFailsOnSuccessors ==
    (ContextDone /\ AnchorExists /\ ~SomeQueryFailed /\ result.impl = "DBHandler") =>
        (result.err <=> (call.after > 0 /\ Successors # {}))

\* C3: when no message with the anchor identifier is stored, the context
\* call returns an error and no window (no anchor, no before-sequence, no
\* after-sequence), and no before or after fetch is issued.
C3_MissingAnchorIsTerminal ==
    (call.op = "GetMessageContext" /\ ~AnchorExists) =>
        /\ ContextDone
        /\ result.err
        /\ result.Message = NoRow
        /\ result.Before = <<>>
        /\ result.After = <<>>
        /\ ~FetchIssued

\* C3 witness: a context call on an identifier that is not stored, in a
\* store that holds messages, has returned
C3_Witness ==
    /\ ContextDone
    /\ ~AnchorExists
    /\ Len(messages) >= 3
    /\ result.err
    /\ ~SomeQueryFailed

\* C4: when the store fails in the before fetch or in the after fetch of a
\* context call whose anchor exists, the call returns an error; it never
\* returns a window whose before- or after-sequence the failure emptied.
C4_FetchFailurePropagates ==
    (ContextDone /\ AnchorExists /\ FetchFailed) => result.err

\* C4 for DBHandler alone, which returns on either failure
C4_DBHandlerPropagates ==
    (ContextDone /\ AnchorExists /\ FetchFailed /\ result.impl = "DBHandler") => result.err

\* the window before ++ [anchor] ++ after of a returned context
Window == result.Before \o <<result.Message>> \o result.After

\* the Window is a contiguous chronological window of the anchor's chat
ContiguousWindow ==
    /\ \A i \in 1..Len(Window) : Window[i].chat_jid = Anchor.chat_jid
    /\ Ascending(Window)
    /\ \A i \in 1..Len(Window) :
          Window[i].timestamp = Anchor.timestamp => Window[i] = Anchor
    /\ \A m \in MessageRows :
          (/\ m.chat_jid = Anchor.chat_jid
           /\ m.timestamp # Anchor.timestamp
           /\ Window[1].timestamp < m.timestamp
           /\ m.timestamp < Window[Len(Window)].timestamp) => m \in Range(Window)

\* C5: for every context call that returns a window, before ++ [anchor] ++
\* after is a contiguous chronological window of the anchor's chat: every
\* message is of the anchor's chat, timestamps never decrease along it, only
\* the anchor has the anchor's timestamp, and every message of the chat whose
\* timestamp lies strictly between the first and the last returned timestamp
\* and is not the anchor's is in it.
C5_ContiguousWindow ==
    (ContextDone /\ ~result.err) => ContiguousWindow

\* C5 for DBHandler alone
C5_DBHandlerWindow ==
    (ContextDone /\ ~result.err /\ result.impl = "DBHandler") => ContiguousWindow

(***************************************************************************)
(* Listings.                                                               *)
(***************************************************************************)
\* a ListMessages call has returned a listing
ListMessagesDone == pc = "idle" /\ result.op = "ListMessages" /\ ~result.err

\* the messages a ListMessages call has listed, in the order of the listing
ListedMessages(r) ==
    IF r.impl = "DBHandler" THEN [i \in 1..Len(r.results) |-> r.results[i].msg]
    ELSE r.messages

\* q occurs in s, letter case apart
ContainsFold(s, q) ==
    \E i \in 1..(Len(s) + 1) :
        /\ i + Len(q) - 1 <= Len(s)
        /\ LowerString(SubSeq(s, i, i + Len(q) - 1)) = LowerString(q)

\* the message satisfies every supplied filter, the sender being compared as
\* the identifier sender
Satisfies(m, p, sender) ==
    /\ p.after # NoTime => m.timestamp > p.after
    /\ p.before # NoTime => m.timestamp < p.before
    /\ p.sender # <<>> => m.sender = sender
    /\ p.chat_jid # <<>> => m.chat_jid = p.chat_jid
    /\ p.query # <<>> => ContainsFold(m.content, p.query)

\* the eligible messages: the sender phone is normalized to an identifier
Eligible(p) == {m \in MessageRows : Satisfies(m, p, PhoneToIdentifier(p.sender))}

\* the eligible messages when the sender phone is compared as it was given
EligibleRaw(p) == {m \in MessageRows : Satisfies(m, p, p.sender)}

\* max(0, n)
Max0(n) == IF n < 0 THEN 0 ELSE n

\* the listing is one page of the set: its rows are different rows of the
\* set, as many as the page holds
PageOf(s, set, p) ==
    Picks(s, Min(p.limit, Max0(Cardinality(set) - p.page * p.limit)), set)

\* C6: a ListMessages call that returns a listing lists eligible messages
\* only, a message being eligible if and only if it satisfies every supplied
\* filter (after, before, sender, chat identifier, content substring), and it
\* lists as many of them as the page holds: all of them when they fit on
\* page 0.
C6_FiltersCombineWithAnd ==
    ListMessagesDone =>
        PageOf(ListedMessages(result), Eligible(call.params), call.params)

\* C6, DBHandler.ListMessages: the listing is a page of the messages that
\* satisfy every supplied filter.
C6_DBHandlerAnd ==
    (ListMessagesDone /\ result.impl = "DBHandler") =>
        PageOf(ListedMessages(result), Eligible(call.params), call.params)

\* C6, WhatsApp.ListMessages: the listing is a page of the messages that
\* satisfy every supplied filter when the sender is compared with the phone
\* as it was given.
C6_WhatsAppAndRaw ==
    (ListMessagesDone /\ result.impl = "WhatsApp") =>
        PageOf(ListedMessages(result), EligibleRaw(call.params), call.params)

\* C7: when a sender phone p is supplied, every message a ListMessages call
\* lists has the sender PhoneToIdentifier(p), and none has the raw phone p
\* as its sender.
C7_SenderIsNormalized ==
    (ListMessagesDone /\ call.params.sender # <<>>) =>
        \A i \in 1..Len(ListedMessages(result)) :
            /\ ListedMessages(result)[i].sender = PhoneToIdentifier(call.params.sender)
            /\ ListedMessages(result)[i].sender # call.params.sender

\* C7, DBHandler.ListMessages: the listed messages have the normalized
\* sender.
C7_DBHandlerNormalizes ==
    (ListMessagesDone /\ result.impl = "DBHandler" /\ call.params.sender # <<>>) =>
        \A i \in 1..Len(ListedMessages(result)) :
            ListedMessages(result)[i].sender = PhoneToIdentifier(call.params.sender)

\* C7, WhatsApp.ListMessages: the listed messages have the raw phone as
\* their sender.
C7_WhatsAppRaw ==
    (ListMessagesDone /\ result.impl = "WhatsApp" /\ call.params.sender # <<>>) =>
        \A i \in 1..Len(ListedMessages(result)) :
            ListedMessages(result)[i].sender = call.params.sender

\* a listing call has returned, and it was not refused for its arguments
ListingDone ==
    /\ pc = "idle"
    /\ result.op \in {"ListMessages", "ListChats"}
    /\ ~(result.op = "ListMessages" /\ result.impl = "WhatsApp"
         /\ result.kind = "invalid date")

\* the chats a ListChats call has listed, without their last messages
ListedChats(r) == [i \in 1..Len(r.chats) |-> Chat(r.chats[i])]

\* the rows a listing call has listed
Listed(r) == IF r.op = "ListMessages" THEN ListedMessages(r) ELSE ListedChats(r)

\* the chats the query selects: it is matched against the identifier and
\* the name, letter case apart
FilteredChats(p) ==
    {Chat(c) : c \in {c \in ChatRows :
        p.query # <<>> => ContainsFold(c.jid, p.query) \/ ContainsFold(c.name, p.query)}}

\* the filtered rows of a listing call in the listing's ordering
SortedFiltered(c) ==
    IF c.op = "ListMessages" THEN OrderByTimestampDesc(Eligible(c.params))
    ELSE OrderChats(FilteredChats(c.params), c.params.sortBy)

\* the rows are the rows at the positions from .. from+n-1 of the sorted
\* filtered rows
AtPositions(rows, c, from, n) ==
    \E s \in SortedFiltered(c) : rows = LimitOffset(s, n, from)

\* the call before this one was the same listing, one page earlier
PreviousPage ==
    /\ prev # NoResult
    /\ call.params.page = prev.call.params.page + 1

\* C8: a listing whose queries the store answered returns the rows at the
\* positions page*limit .. page*limit+limit-1 of the filtered rows in the
\* listing's ordering; the page before it, listed on the same store, has no
\* row in common with it, and the two pages together are the rows at the
\* positions of both.
C8_Pagination ==
    (ListingDone /\ ~SomeQueryFailed) =>
        /\ ~result.err
        /\ AtPositions(Listed(result), call, call.params.page * call.params.limit,
                       call.params.limit)
        /\ PreviousPage =>
            /\ Range(Listed(prev.result)) \cap Range(Listed(result)) = {}
            /\ AtPositions(Listed(prev.result) \o Listed(result), call,
                           prev.call.params.page * call.params.limit,
                           2 * call.params.limit)

\* C8, DBHandler without context: one listing returns the rows at the
\* positions of its page.
C8_DBHandlerPage ==
    (ListingDone /\ ~SomeQueryFailed /\ result.impl = "DBHandler"
     /\ (result.op = "ListMessages" => ~call.params.includeContext)) =>
        /\ ~result.err
        /\ AtPositions(Listed(result), call, call.params.page * call.params.limit,
                       call.params.limit)

\* C8, WhatsApp.ListChats without the last messages: the call fails though
\* the store answered.
C8_WhatsAppListChatsFails ==
    (ListingDone /\ result.op = "ListChats" /\ result.impl = "WhatsApp"
     /\ ~call.params.includeLastMessage) => result.err

\* a ListChats call with includeLastMessage set has returned
ListChatsDone ==
    pc = "idle" /\ result.op = "ListChats" /\ call.params.includeLastMessage

\* the query that lists the chats failed in the store.  WhatsApp reads the
\* chats and their last messages with one query.
ChatQueryFailed ==
    /\ Len(queries) > 0 /\ queries[1].failed
    /\ result.impl = "DBHandler" \/ ~call.includeLastMessage

\* the same, for ListChats with includeLastMessage set
ListQueryFailed == Len(queries) > 0 /\ queries[1].failed /\ result.impl = "DBHandler"

\* the lookup of the last message of the i-th listed chat failed in the store
LookupFailed(i) ==
    result.impl = "DBHandler" /\ Len(queries) > i /\ queries[i + 1].failed

\* the chat has a message
HasMessage(jid) == \E m \in MessageRows : m.chat_jid = jid

\* C9: a ListChats call with includeLastMessage set, whose listing of the
\* chats did not fail in the store, succeeds and returns the chats of the
\* page selected by the query, and the last-message field is absent on
\* exactly the chats whose lookup failed or that have no message, and on
\* the others it is a message of the chat.
C9_BestEffortEnrichment ==
    (ListChatsDone /\ ~ListQueryFailed) =>
        /\ ~result.err
        /\ AtPositions(ListedChats(result), call, call.params.page * call.params.limit,
                       call.params.limit)
        /\ \A i \in 1..Len(result.chats) :
            /\ result.chats[i].LastMessage = NoRow
                <=> (LookupFailed(i) \/ ~HasMessage(result.chats[i].jid))
            /\ result.chats[i].LastMessage # NoRow =>
                /\ result.chats[i].LastMessage \in MessageRows
                /\ result.chats[i].LastMessage.chat_jid = result.chats[i].jid

\* C9, DBHandler.ListChats: the enrichment is best-effort.
C9_DBHandlerBestEffort ==
    (ListChatsDone /\ ~ListQueryFailed /\ result.impl = "DBHandler") =>
        /\ ~result.err
        /\ AtPositions(ListedChats(result), call, call.params.page * call.params.limit,
                       call.params.limit)
        /\ \A i \in 1..Len(result.chats) :
            result.chats[i].LastMessage = NoRow
                <=> (LookupFailed(i) \/ ~HasMessage(result.chats[i].jid))

\* C9, WhatsApp.ListChats: when the store answers, every listed chat that
\* has a message is listed with one.
C9_WhatsAppEnriches ==
    (ListChatsDone /\ result.impl = "WhatsApp" /\ ~result.err) =>
        \A i \in 1..Len(result.chats) :
            result.chats[i].LastMessage = NoRow <=> ~HasMessage(result.chats[i].jid)

\* a GetChat call has returned
GetChatDone == pc = "idle" /\ result.op = "GetChat"

\* the identifier GetChat was called with is the identifier of a chat
ChatExists == \E c \in ChatRows : c.jid = call.chatJID

\* C10: GetChat on an existing chat, unless the lookup of the chat itself
\* failed in the store, returns no error and the chat with its identifier,
\* name and last-message time, the last-message field being absent when it
\* was not asked for, when its lookup failed and when the chat has no
\* message; GetChat on an identifier with no chat returns no chat.
C10_GetChatReturnsChat ==
    GetChatDone =>
        /\ (ChatExists /\ ~ChatQueryFailed) =>
            /\ ~result.err
            /\ Chat(result.chat) \in {Chat(c) : c \in ChatRows}
            /\ result.chat.jid = call.chatJID
            /\ result.chat.LastMessage = NoRow
                <=> \/ ~call.includeLastMessage
                    \/ SomeQueryFailed
                    \/ ~HasMessage(call.chatJID)
        /\ ~ChatExists => result.chat = NoChat

\* C10, DBHandler.GetChat: the chat is returned, and a missing chat is an
\* error.
C10_DBHandlerGetChat ==
    (GetChatDone /\ result.impl = "DBHandler") =>
        /\ (ChatExists /\ ~queries[1].failed) =>
            /\ ~result.err
            /\ Chat(result.chat) \in {Chat(c) : c \in ChatRows}
            /\ result.chat.jid = call.chatJID
            /\ result.chat.LastMessage = NoRow
                <=> \/ ~call.includeLastMessage
                    \/ SomeQueryFailed
                    \/ ~HasMessage(call.chatJID)
        /\ ~ChatExists => result.err /\ result.chat = NoChat

\* C10, WhatsApp.GetChat: a failure of the one query is an error, with or
\* without the last message, and a missing chat is no chat and no error.
C10_WhatsAppGetChat ==
    (GetChatDone /\ result.impl = "WhatsApp") =>
        /\ queries[1].failed <=> result.err
        /\ (~ChatExists /\ ~queries[1].failed) => result.chat = NoChat /\ ~result.err

(***************************************************************************)
(* Contacts.                                                               *)
(***************************************************************************)
\* a SearchContacts call has returned
SearchDone == pc = "idle" /\ result.op = "SearchContacts"

\* the string is empty once its white space is trimmed
IsBlank(s) == \A i \in 1..Len(s) : s[i] = " "

\* the query has a character that LIKE reads as a wildcard
HasWildcard(q) == \E i \in 1..Len(q) : q[i] \in {"%", "_"}

\* Chat.IsGroup: the identifier is a group identifier
IsGroup(jid) == HasSuffix(jid, GroupMarker)

\* C11: SearchContacts with a query that is empty after trimming fails,
\* issues no store query and returns no contact.
C11_EmptyQueryRefused ==
    (SearchDone /\ IsBlank(call.query)) =>
        result.err /\ queries = <<>> /\ result.contacts = <<>>

\* C11, DBHandler.SearchContacts: the empty query is refused before the
\* store is asked.
C11_DBHandlerRefuses ==
    (SearchDone /\ result.impl = "DBHandler" /\ IsBlank(call.query)) =>
        result.err /\ queries = <<>> /\ result.contacts = <<>>

\* C11, WhatsApp.SearchContacts: the store is asked whatever the query is.
C11_WhatsAppAsks ==
    (SearchDone /\ result.impl = "WhatsApp") => Len(queries) = 1

\* C12: for a query that is not empty after trimming, every contact
\* SearchContacts returns has an identifier that is no group identifier, and
\* its identifier or its name contains the query, letter case apart.
C12_OnlyMatchingNonGroups ==
    (SearchDone /\ ~IsBlank(call.query) /\ ~result.err) =>
        \A i \in 1..Len(result.contacts) :
            /\ ~IsGroup(result.contacts[i].JID)
            /\ \/ ContainsFold(result.contacts[i].JID, TrimSpace(call.query))
               \/ ContainsFold(result.contacts[i].Name, TrimSpace(call.query))

\* C12, WhatsApp.SearchContacts: no group is returned, and for a query
\* without wildcard characters every contact contains the query.
C12_WhatsAppNonGroups ==
    (SearchDone /\ result.impl = "WhatsApp" /\ ~result.err) =>
        \A i \in 1..Len(result.contacts) :
            /\ ~IsGroup(result.contacts[i].JID)
            /\ ~HasWildcard(call.query) =>
                \/ ContainsFold(result.contacts[i].JID, call.query)
                \/ ContainsFold(result.contacts[i].Name, call.query)

\* C12, DBHandler.SearchContacts: for a query without wildcard characters
\* every contact contains the trimmed query.
C12_DBHandlerContains ==
    (SearchDone /\ result.impl = "DBHandler" /\ ~result.err
     /\ ~HasWildcard(call.query)) =>
        \A i \in 1..Len(result.contacts) :
            \/ ContainsFold(result.contacts[i].JID, TrimSpace(call.query))
            \/ ContainsFold(result.contacts[i].Name, TrimSpace(call.query))

(***************************************************************************)
(* Store failures in ListMessages.                                         *)
(***************************************************************************)
\* a ListMessages call has returned
ListMessagesReturned == pc = "idle" /\ result.op = "ListMessages"

\* the call returned an error to its caller.  WhatsApp.ListMessages returns
\* a string: after a database error it prints the error and returns "".
ErrorReturned ==
    /\ result.err
    /\ result.impl = "WhatsApp" => result.kind # "database error"

\* C13: a ListMessages call during which the store failed, in the listing
\* query or in the context fetch of a listed message, returns an error to
\* its caller.
C13_StoreFailureAborts ==
    (ListMessagesReturned /\ SomeQueryFailed) => ErrorReturned

\* C13, DBHandler.ListMessages: every store failure is returned as an error.
C13_DBHandlerAborts ==
    (ListMessagesReturned /\ result.impl = "DBHandler" /\ SomeQueryFailed) =>
        ErrorReturned /\ result.results = <<>>

\* C13, WhatsApp.ListMessages: a failure of the listing query ends in the
\* empty string, and a failure in a context fetch in a listing.
C13_WhatsAppNeverErrs ==
    (ListMessagesReturned /\ result.impl = "WhatsApp" /\ SomeQueryFailed) =>
        /\ ~ErrorReturned
        /\ queries[1].failed => result.kind = "database error"
        /\ ~queries[1].failed => result.kind = "messages" /\ ~result.err

(***************************************************************************)
(* Identity normalization.                                                 *)
(***************************************************************************)
\* the phone number has been taken from the identifier made of call.phone
RoundTripDone == pc = "idle" /\ result.op = "IdentifierToPhone"

\* the string has no "@"
NoAt(s) == \A i \in 1..Len(s) : s[i] # "@"

C14_FirstAt ==
    RoundTripDone =>
        \E k \in 0..Len(call.phone) :
            /\ result.PhoneNumber = SubSeq(call.phone, 1, k)
            /\ NoAt(result.PhoneNumber)
            /\ k < Len(call.phone) => call.phone[k + 1] = "@"

(***************************************************************************)
(* Sender names.                                                           *)
(***************************************************************************)
\* a GetSenderName call has returned
NameDone == pc = "idle" /\ result.op = "GetSenderName"

\* the chats with a name whose identifier is the sender identifier
ExactChats == {c \in ChatRows : c.jid = call.senderJID /\ c.name # <<>>}

\* the phone portion of an identifier: the characters before its "@"
PhonePortion(s) ==
    IF \E i \in 1..Len(s) : s[i] = "@"
    THEN SubSeq(s, 1, (CHOOSE i \in 1..Len(s) :
                          s[i] = "@" /\ \A j \in 1..(i - 1) : s[j] # "@") - 1)
    ELSE s

\* the chats whose identifier contains the phone portion of the sender
SubstringChats ==
    {c \in ChatRows : StringsContains(c.jid, PhonePortion(call.senderJID))}

\* the names of the chats
NamesOf(cs) == {c.name : c \in cs}

C15_NamedChats ==
    (NameDone /\ ~SomeQueryFailed /\ \A c \in ChatRows : c.name # <<>>) =>
        /\ ExactChats # {} => result.name \in NamesOf(ExactChats) /\ Len(queries) = 1
        /\ (ExactChats = {} /\ SubstringChats # {}) =>
            result.name \in NamesOf(SubstringChats)
        /\ (ExactChats = {} /\ SubstringChats = {}) => result.name = call.senderJID

(***************************************************************************)
(* Repeated reads.                                                         *)
(***************************************************************************)
\* the call before this one was the same listing with the same parameters,
\* and the store answered both
SameCallTwice ==
    /\ pc = "idle"
    /\ prev # NoResult
    /\ call = prev.call
    /\ ~SomeQueryFailed
    /\ \A i \in 1..Len(prev.queries) : ~prev.queries[i].failed

\* no two rows that a listing orders have the same sort key: the messages
\* have different timestamps, the chats different last-message times
NoEqualKeys ==
    /\ \A m, n \in MessageRows : m # n => m.timestamp # n.timestamp
    /\ \A c, d \in ChatRows : c # d => c.last_message_time # d.last_message_time

C16_IdempotentWithoutTies == (SameCallTwice /\ NoEqualKeys) => result = prev.result

\* C16, ListChats by name: the names are different, and two calls that do
\* not read the last messages return the same result.
C16_IdempotentByName ==
    (SameCallTwice /\ call.op = "ListChats" /\ call.params.sortBy = "name"
     /\ ~call.params.includeLastMessage) => result = prev.result

(***************************************************************************)
(* Context calls and a concurrent writer.                                  *)
(***************************************************************************)
\* the number of messages the writer stored during the call
Writes == Cardinality({i \in 1..Len(queries) : queries[i].q = "write"})

\* the messages table when it held k messages
StoreAt(k) == {messages[i] : i \in 1..k}

\* what a context call returns besides its anchor
ReturnedWindow == [err |-> result.err, Before |-> result.Before, After |-> result.After]

\* the windows the call computes on the rows of one store state that holds
\* the anchor, the store answering: WhatsApp returns the before rows as the
\* query yields them, DBHandler reverses them and fails on an after row
AtomicWindows(rows) ==
    LET anchor == CHOOSE m \in rows : m.id = call.messageID
        befores == BeforeQuery(rows, anchor.chat_jid, anchor.timestamp, call.before)
        afters == AfterQuery(rows, anchor.chat_jid, anchor.timestamp, call.after)
    IN IF call.impl = "WhatsApp"
       THEN {[err |-> FALSE, Before |-> b, After |-> a] : b \in befores, a \in afters}
       ELSE {IF a # <<>> THEN [err |-> TRUE, Before |-> <<>>, After |-> <<>>]
             ELSE [err |-> FALSE, Before |-> Reverse(b), After |-> <<>>] :
                b \in befores, a \in afters}

\* a context call on an existing anchor has returned, the store having
\* answered its queries
ContextAnswered ==
    /\ ContextDone
    /\ ~SomeQueryFailed
    /\ \E m \in MessageRows : m.id = call.messageID

\* the store states that existed during the call
StatesOfCall == (Len(messages) - Writes)..Len(messages)

\* C17: a context call during which no message was written returns the
\* window it computes at once on the store.
C17_NoWriteNoDivergence ==
    (ContextAnswered /\ Writes = 0) => ReturnedWindow \in AtomicWindows(MessageRows)

\* C17: a context call has returned a window that it computes at once on
\* none of the store states that existed during the call.
C17_InconsistentWindow ==
    /\ ContextAnswered
    /\ ~result.err
    /\ Writes > 0
    /\ \A k \in StatesOfCall : ReturnedWindow \notin AtomicWindows(StoreAt(k))

\* C17, DBHandler: whatever is written during the call, what is returned is
\* what the call computes at once on one of the store states of the call.
C17_DBHandlerSomeState ==
    (ContextAnswered /\ result.impl = "DBHandler") =>
        \E k \in StatesOfCall : ReturnedWindow \in AtomicWindows(StoreAt(k))

\* C17: the before rows and the after rows are each the rows of one store
\* state of the call.
C17_EachFetchOfSomeState ==
    (ContextAnswered /\ ~result.err) =>
        /\ \E k \in StatesOfCall : \E w \in AtomicWindows(StoreAt(k)) :
             w.Before = result.Before
        /\ result.impl = "WhatsApp" =>
             \E k \in StatesOfCall : \E w \in AtomicWindows(StoreAt(k)) :
               w.After = result.After

(***************************************************************************)
(* Chats listed once.                                                      *)
(***************************************************************************)
\* a ListChats call has returned a listing
ListChatsListed == pc = "idle" /\ result.op = "ListChats" /\ ~result.err

\* C18: a ListChats call lists no chat twice, and no more rows than there
\* are chats that match the query.
C18_EachChatOnce ==
    ListChatsListed =>
        /\ \A i, j \in 1..Len(result.chats) :
             i # j => result.chats[i].jid # result.chats[j].jid
        /\ Len(result.chats) <= Cardinality(FilteredChats(call.params))

\* C18, DBHandler.ListChats: no chat is listed twice.
C18_DBHandlerOnce ==
    (ListChatsListed /\ result.impl = "DBHandler") =>
        /\ \A i, j \in 1..Len(result.chats) :
             i # j => result.chats[i].jid # result.chats[j].jid
        /\ Len(result.chats) <= Cardinality(FilteredChats(call.params))

\* C18, WhatsApp.ListChats: a chat is listed once for each message whose
\* timestamp is the chat's last-message time, so no two listed rows are the
\* same chat with the same last message.
C18_WhatsAppOncePerMessage ==
    (ListChatsListed /\ result.impl = "WhatsApp") =>
        \A i, j \in 1..Len(result.chats) :
            (i # j /\ result.chats[i].jid = result.chats[j].jid) =>
                /\ result.chats[i].LastMessage # result.chats[j].LastMessage
                /\ result.chats[i].LastMessage.timestamp = result.chats[i].last_message_time
                /\ result.chats[j].LastMessage.timestamp = result.chats[j].last_message_time

====
